---- MODULE Spec2Model ----
(***************************************************************************)
(* Model of the KVStorage repository: the chained hash table Dictionary    *)
(* (src/src/dict/Dictionary.h) and the storage engine InMemoryKVStorage    *)
(* (src/src/InMemoryKVStorage.h) built from two Dictionary instances and   *)
(* two std::set indexes, driven by a mock clock.                           *)
(*                                                                         *)
(* Conventions.                                                            *)
(*   std::optional<T>  is a sequence: <<>> is std::nullopt, <<x>> holds x. *)
(*   A bucket array    is a function from 0..n-1 to chains; the empty      *)
(*                     function <<>> is nullptr.                           *)
(*   A chain           is the sequence of its nodes, head first; a node is *)
(*                     [key |-> k, value |-> v].                           *)
(*   A key             is a string, written as the sequence of its         *)
(*                     character codes and compared lexicographically.     *)
(***************************************************************************)
EXTENDS Integers, Sequences, FiniteSets, TLC

(* ------------------------------ bounds --------------------------------- *)

\* Largest value the mock clock takes.
MaxClock == 2
\* Largest number of pairs held by the expiration-ordered set.
MaxTtlPairs == 2
\* Largest count passed to getManySorted.
MaxCount == 2

\* Keys "a" and "aa", and the values stored under them.
Keys == {<<1>>, <<1, 1>>}
Values == {"v1", "v2"}
\* TTLs passed to set: 0 (permanent) and one second.
Ttls == {0, 1}
\* Start keys of a range scan: the keys, "" before them all, "a\0" between
\* them and "b" after them all.
StartKeys == Keys \cup {<<>>, <<1, 0>>, <<2>>}

\* Keys of a Dictionary exercised on its own: 1 and 2 are set, overwritten
\* and removed at will; the keys from 3 on are the keys FillDictionary inserts
\* one after the other.
MaxFill == 9
\* Largest value of the entry counter of such a Dictionary before a set.
MaxUsed == 12
FreeKeys == {1, 2}
FillKeys == 3..(2 + MaxFill)
DictKeys == FreeKeys \cup FillKeys
\* Initial capacities: the one of the tests, the default, the smallest one
\* above it, and the smallest one a single entry leaves under the low fill
\* limit.
Capacities == {4, 8, 9, 101}

(* ------------------------- program constants --------------------------- *)

BASIC_DICTIONARY_SIZE == 8
DICTIONARY_REHASH_BUCKET_COUNT == 32

(* ------------------------------ helpers -------------------------------- *)

has_value(o) == o # <<>>
value_of(o) == o[1]

Min(a, b) == IF a < b THEN a ELSE b

\* std::string operator<, used by ComparatorPtrKey: lexicographic order.
RECURSIVE KeyLess(_, _)
KeyLess(lhs, rhs) ==
    IF rhs = <<>> THEN FALSE
    ELSE IF lhs = <<>> THEN TRUE
    ELSE IF Head(lhs) # Head(rhs) THEN Head(lhs) < Head(rhs)
    ELSE KeyLess(Tail(lhs), Tail(rhs))

\* The hash functor of the tables: "a" and "aa" share bucket 1 of a table of
\* 8 buckets.
StdHash == (<<1>> :> 1) @@ (<<1, 1>> :> 9)

\* The hash functors a Dictionary of DictKeys is built with: ConflictHash of
\* the tests, which sends every key to 1, and a spreading one in the place of
\* std::hash.
ConflictHash == [k \in DictKeys |-> 1]
SpreadHash == [k \in DictKeys |-> k * 61]
Hashes == {ConflictHash, SpreadHash}

(***************************************************************************)
(*                             Dictionary                                  *)
(***************************************************************************)

\* A constructor allocating twice the requested capacity.
Dictionary_double(size, hash) ==
    [dictionary |-> [i \in 0..(2 * size - 1) |-> <<>>],
     dictionarySize |-> 2 * size,
     dictionaryUsed |-> 0,
     alternativeDictionary |-> <<>>,
     alternativeDictionarySize |-> 0,
     hashFunction |-> hash,
     rehashIndex |-> -1,
     ub |-> FALSE]

\* Dictionary::Dictionary(size): an array of `size` empty buckets, nothing
\* used, no alternative array, rehash cursor at the sentinel -1.
Dictionary(size, hash) ==
    [dictionary |-> [i \in 0..(size - 1) |-> <<>>],
     dictionarySize |-> size,
     dictionaryUsed |-> 0,
     alternativeDictionary |-> <<>>,
     alternativeDictionarySize |-> 0,
     hashFunction |-> hash,
     rehashIndex |-> -1,
     \* set once an access leaves an array or follows a released pointer
     ub |-> FALSE]

getBucketIndex(d, key, dictionarySize) == d.hashFunction[key] % dictionarySize

\* fillFactor() < DICTIONARY_LOW_LIMIT_REHASH: used/size < 0.01f, which for
\* the sizes of this model is used * 100 < size.
fillFactorBelowLow(d) == d.dictionaryUsed * 100 < d.dictionarySize
\* fillFactor() > DICTIONARY_HIGH_LIMIT_REHASH: used/size > 1.2f, which for
\* the sizes of this model is used * 5 > size * 6.
fillFactorAboveHigh(d) == d.dictionaryUsed * 5 > d.dictionarySize * 6

\* Index of the node of `chain` holding `key`, 0 when there is none.
ChainFind(chain, key) ==
    LET hits == {i \in 1..Len(chain) : chain[i].key = key}
    IN IF hits = {} THEN 0 ELSE CHOOSE i \in hits : \A j \in hits : i <= j

\* A faulty _set: a new key of a non-empty bucket becomes its only node.
Dictionary__set_replaceChain(d, key, value, pDictionary, dictionarySize) ==
    LET index == getBucketIndex(d, key, dictionarySize)
        arr == d[pDictionary]
        node == [key |-> key, value |-> value]
    IN IF index \notin DOMAIN arr THEN [d EXCEPT !.ub = TRUE]
       ELSE IF arr[index] # <<>> /\ ChainFind(arr[index], key) # 0
       THEN [d EXCEPT ![pDictionary][index][ChainFind(arr[index], key)].value
                          = value]
       ELSE [d EXCEPT ![pDictionary][index] = <<node>>,
                      !.dictionaryUsed = @ + 1]

\* Dictionary::_set on the array named by pDictionary ("dictionary" or
\* "alternativeDictionary").
Dictionary__set(d, key, value, pDictionary, dictionarySize) ==
    LET index == getBucketIndex(d, key, dictionarySize)
        arr == d[pDictionary]
        node == [key |-> key, value |-> value]
    IN IF index \notin DOMAIN arr THEN [d EXCEPT !.ub = TRUE]
       ELSE IF arr[index] = <<>>
       THEN [d EXCEPT ![pDictionary][index] = <<node>>,
                      !.dictionaryUsed = @ + 1]
       ELSE LET pos == ChainFind(arr[index], key)
            IN IF pos # 0
               THEN [d EXCEPT ![pDictionary][index][pos].value = value]
               ELSE \* tmp->next = _dictionary[index]: the successor is read
                    \* from the primary array, whichever array is written
                    IF index \in DOMAIN d.dictionary
                    THEN [d EXCEPT ![pDictionary][index] =
                                        <<node>> \o d.dictionary[index],
                                   !.dictionaryUsed = @ + 1,
                                   !.ub = @ \/ (pDictionary # "dictionary"
                                                /\ d.dictionary[index] # <<>>)]
                    ELSE [d EXCEPT ![pDictionary][index] = <<node>>,
                                   !.dictionaryUsed = @ + 1,
                                   !.ub = TRUE]

\* Dictionary::_get: the node of `key` in the array, as an optional.
Dictionary__get(d, key, pDictionary, dictionarySize) ==
    LET index == getBucketIndex(d, key, dictionarySize)
        arr == d[pDictionary]
    IN IF index \notin DOMAIN arr THEN <<>>
       ELSE LET pos == ChainFind(arr[index], key)
            IN IF pos = 0 THEN <<>> ELSE <<arr[index][pos]>>

\* A faulty _remove: the bucket is made to point at the successor of the node
\* found, which drops the nodes in front of it as well.
Dictionary__remove_head(d, key, pDictionary, dictionarySize) ==
    LET index == getBucketIndex(d, key, dictionarySize)
        arr == d[pDictionary]
    IN IF index \notin DOMAIN arr THEN [d |-> [d EXCEPT !.ub = TRUE], ret |-> FALSE]
       ELSE LET chain == arr[index]
                pos == ChainFind(chain, key)
            IN IF pos = 0 THEN [d |-> d, ret |-> FALSE]
               ELSE [d |-> [d EXCEPT ![pDictionary][index] =
                                         SubSeq(chain, pos + 1, Len(chain)),
                                   !.dictionaryUsed = @ - 1],
                     ret |-> TRUE]

\* Dictionary::_remove: unlinks the node of `key`; [d, ret].
Dictionary__remove(d, key, pDictionary, dictionarySize) ==
    LET index == getBucketIndex(d, key, dictionarySize)
        arr == d[pDictionary]
    IN IF index \notin DOMAIN arr THEN [d |-> [d EXCEPT !.ub = TRUE], ret |-> FALSE]
       ELSE LET chain == arr[index]
                pos == ChainFind(chain, key)
            IN IF pos = 0 THEN [d |-> d, ret |-> FALSE]
               ELSE [d |-> [d EXCEPT ![pDictionary][index] =
                                    SubSeq(chain, 1, pos - 1)
                                        \o SubSeq(chain, pos + 1, Len(chain)),
                                   !.dictionaryUsed = @ - 1],
                     ret |-> TRUE]

\* A faulty isNeedRehash: tables of the base capacity are resized as well.
isNeedRehash_fromBase(d) ==
    /\ d.dictionaryUsed # 0
    /\ (fillFactorBelowLow(d) \/ fillFactorAboveHigh(d))

\* isNeedRehash with the base capacity itself eligible.
isNeedRehash_atBase(d) ==
    /\ d.dictionarySize >= BASIC_DICTIONARY_SIZE
    /\ d.dictionaryUsed # 0
    /\ (fillFactorBelowLow(d) \/ fillFactorAboveHigh(d))

isNeedRehash(d) ==
    /\ d.dictionarySize > BASIC_DICTIONARY_SIZE
    /\ d.dictionaryUsed # 0
    /\ (fillFactorBelowLow(d) \/ fillFactorAboveHigh(d))

isRehashing(d) == d.rehashIndex # -1

\* prepareRehash with the growth target in both cases.
prepareRehash_double(d) ==
    [d EXCEPT !.alternativeDictionarySize = d.dictionarySize * 2,
              !.alternativeDictionary = [i \in 0..(d.dictionarySize * 2 - 1) |-> <<>>],
              !.rehashIndex = 0]

prepareRehash(d) ==
    LET size == IF fillFactorBelowLow(d) THEN d.dictionarySize \div 2
                ELSE d.dictionarySize * 2
    IN [d EXCEPT !.alternativeDictionarySize = size,
                 !.alternativeDictionary = [i \in 0..(size - 1) |-> <<>>],
                 !.rehashIndex = 0]

\* Dictionary::rehash: releases the chains of up to
\* DICTIONARY_REHASH_BUCKET_COUNT primary buckets from the cursor on (the
\* nodes are deleted, none is copied, dictionaryUsed is not changed), and
\* when the cursor reaches dictionarySize makes the alternative array the
\* primary one (dictionarySize is not changed).
\* rehash that keeps the alternative pointer when it completes.
rehash_keepAlternative(d) ==
    LET stop == Min(d.rehashIndex + DICTIONARY_REHASH_BUCKET_COUNT,
                    IF d.dictionarySize > d.rehashIndex THEN d.dictionarySize
                    ELSE d.rehashIndex)
        visited == d.rehashIndex..(stop - 1)
        swept == [d EXCEPT !.dictionary =
                               [i \in DOMAIN d.dictionary |->
                                   IF i \in visited THEN <<>> ELSE d.dictionary[i]],
                           !.rehashIndex = stop,
                           !.ub = @ \/ ~(visited \subseteq DOMAIN d.dictionary)]
    IN IF stop = d.dictionarySize
       THEN [swept EXCEPT !.rehashIndex = -1,
                          !.dictionary = d.alternativeDictionary]
       ELSE swept

\* rehash sweeping every remaining bucket in one call.
rehash_whole(d) ==
    [d EXCEPT !.rehashIndex = -1,
              !.dictionary = d.alternativeDictionary,
              !.alternativeDictionary = <<>>]

rehash(d) ==
    LET stop == Min(d.rehashIndex + DICTIONARY_REHASH_BUCKET_COUNT,
                    IF d.dictionarySize > d.rehashIndex THEN d.dictionarySize
                    ELSE d.rehashIndex)
        visited == d.rehashIndex..(stop - 1)
        swept == [d EXCEPT !.dictionary =
                               [i \in DOMAIN d.dictionary |->
                                   IF i \in visited THEN <<>> ELSE d.dictionary[i]],
                           !.rehashIndex = stop,
                           !.ub = @ \/ ~(visited \subseteq DOMAIN d.dictionary)]
    IN IF stop = d.dictionarySize
       THEN [swept EXCEPT !.rehashIndex = -1,
                          !.dictionary = d.alternativeDictionary,
                          !.alternativeDictionary = <<>>]
       ELSE swept

preCommandActions(d) ==
    IF isRehashing(d) THEN rehash(d)
    ELSE IF isNeedRehash(d) THEN rehash(prepareRehash(d))
    ELSE d

\* Dictionary::set after preCommandActions, on the table p it left.  While
\* rehashing, the key handle has been moved into _set when `*key` is
\* evaluated for _remove: the dereference of the empty handle is undefined.
\* `faults` chooses what it does: the call faults and _remove does not run, or
\* _remove runs with the content the key had.
Dictionary_set_command(p, key, value, faults) ==
    IF isRehashing(p)
    THEN IF faults
         THEN [Dictionary__set(p, key, value, "alternativeDictionary",
                               p.alternativeDictionarySize) EXCEPT !.ub = TRUE]
         ELSE [Dictionary__remove(
                   Dictionary__set(p, key, value, "alternativeDictionary",
                                   p.alternativeDictionarySize),
                   key, "dictionary", p.dictionarySize).d EXCEPT !.ub = TRUE]
    ELSE Dictionary__set(p, key, value, "dictionary", p.dictionarySize)

\* Dictionary::set.
Dictionary_set(d, key, value, faults) ==
    Dictionary_set_command(preCommandActions(d), key, value, faults)

\* Dictionary::remove after preCommandActions; [d, ret].
Dictionary_remove_command(p, key) ==
    LET a == Dictionary__remove(p, key, "alternativeDictionary",
                                p.alternativeDictionarySize)
    IN IF isRehashing(p) /\ a.ret THEN a
       ELSE Dictionary__remove(p, key, "dictionary", p.dictionarySize)

\* Dictionary::remove; [d, ret].
Dictionary_remove(d, key) == Dictionary_remove_command(preCommandActions(d), key)

\* The bucket index of `key` under dictionarySize lies outside the primary
\* array: reading _dictionary[index] leaves the allocation.
primaryOutOfBounds(p, key) ==
    getBucketIndex(p, key, p.dictionarySize) \notin DOMAIN p.dictionary

\* Dictionary::get after preCommandActions; [d, ret] with ret an optional value.
Dictionary_get_command(p, key) ==
    LET alternativeResult == Dictionary__get(p, key, "alternativeDictionary",
                                             p.alternativeDictionarySize)
        result == Dictionary__get(p, key, "dictionary", p.dictionarySize)
    IN IF isRehashing(p) /\ has_value(alternativeResult)
       THEN [d |-> p, ret |-> <<value_of(alternativeResult).value>>]
       ELSE [d |-> [p EXCEPT !.ub = @ \/ primaryOutOfBounds(p, key)],
             ret |-> IF has_value(result) THEN <<value_of(result).value>> ELSE <<>>]

\* Dictionary::get; [d, ret].
Dictionary_get(d, key) == Dictionary_get_command(preCommandActions(d), key)

\* Dictionary::find after preCommandActions; [d, ret] with ret an optional
\* (key, value) pair.
Dictionary_find_command(p, key) ==
    LET alternativeResult == Dictionary__get(p, key, "alternativeDictionary",
                                             p.alternativeDictionarySize)
        result == Dictionary__get(p, key, "dictionary", p.dictionarySize)
    IN IF isRehashing(p) /\ has_value(alternativeResult)
       THEN [d |-> p,
             ret |-> <<<<value_of(alternativeResult).key,
                         value_of(alternativeResult).value>>>>]
       ELSE [d |-> [p EXCEPT !.ub = @ \/ primaryOutOfBounds(p, key)],
             ret |-> IF has_value(result)
                     THEN <<<<value_of(result).key, value_of(result).value>>>>
                     ELSE <<>>]

\* Dictionary::find; [d, ret].
Dictionary_find(d, key) == Dictionary_find_command(preCommandActions(d), key)

\* Dictionary::empty and Dictionary::size.
Dictionary_empty(d) == d.dictionaryUsed = 0
Dictionary_size(d) == d.dictionaryUsed

(***************************************************************************)
(*                          InMemoryKVStorage                              *)
(***************************************************************************)

\* The members of a storage: the value index, the expiration index, the
\* key-ordered set and the expiration-ordered set.
\*
\* setSortedKeyPtr is a std::set ordered by ComparatorPtrKey, that is by the
\* keys themselves: it is the set of its keys, iterated in KeyLess order.
\*
\* setSortedTtlPtr is a std::set of pairs of shared pointers under the default
\* order, which compares the pointers themselves (the addresses of the key and
\* of the deadline), never what they point to.  It is the sequence of its
\* pairs [key, ttl] in that order: begin() is its first element.  Every set
\* call allocates a fresh key handle, whose address relative to the live ones
\* is the allocator's choice: a new pair may take any position.
Storage(kv, ttl, keys, ttls) ==
    [keyValueDictionary |-> kv,
     keyTtlDictionary |-> ttl,
     setSortedKeyPtr |-> keys,
     setSortedTtlPtr |-> ttls]

InsertAt(seq, pos, x) ==
    SubSeq(seq, 1, pos - 1) \o <<x>> \o SubSeq(seq, pos, Len(seq))

\* std::find_if over setSortedTtlPtr for the first pair of `key`, and erase of
\* the pair found.
EraseFirst(seq, key) ==
    LET hits == {i \in 1..Len(seq) : seq[i].key = key}
        it == IF hits = {} THEN 0
              ELSE CHOOSE i \in hits : \A j \in hits : i <= j
    IN IF it = 0 THEN seq
       ELSE SubSeq(seq, 1, it - 1) \o SubSeq(seq, it + 1, Len(seq))

\* The keys of S in ascending KeyLess order: the iteration order of
\* setSortedKeyPtr.
RECURSIVE SortedKeys(_)
SortedKeys(S) ==
    IF S = {} THEN <<>>
    ELSE LET m == CHOOSE k \in S : \A o \in S \ {k} : KeyLess(k, o)
         IN <<m>> \o SortedKeys(S \ {m})

\* The storage st after a lookup in its value index, of result g = [d, ret].
AfterValueLookup(st, g) == [st EXCEPT !.keyValueDictionary = g.d]
\* The storage st after a lookup in its expiration index, of result g.
AfterTtlLookup(st, g) == [st EXCEPT !.keyTtlDictionary = g.d]

\* InMemoryKVStorage::isExist, given the lookup's result; [st, ret].
isExist_found(st, value) ==
    [st |-> AfterValueLookup(st, value), ret |-> has_value(value.ret)]

\* InMemoryKVStorage::isExist; [st, ret].
isExist(st, key) ==
    isExist_found(st, Dictionary_get(st.keyValueDictionary, key))

\* A faulty isExpired: an entry counts as expired from its deadline on.
isExpired_found_inclusive(st, ttl, now) ==
    [st |-> AfterTtlLookup(st, ttl),
     ret |-> IF has_value(ttl.ret) THEN value_of(ttl.ret) <= now ELSE FALSE]

\* InMemoryKVStorage::isExpired at clock time now, given the lookup's result.
isExpired_found(st, ttl, now) ==
    [st |-> AfterTtlLookup(st, ttl),
     ret |-> IF has_value(ttl.ret) THEN value_of(ttl.ret) < now ELSE FALSE]

\* InMemoryKVStorage::isExpired at clock time now; [st, ret].
isExpired(st, key, now) ==
    isExpired_found(st, Dictionary_get(st.keyTtlDictionary, key), now)

\* A faulty set: a key that already has a deadline keeps it.
set_keepTtl(st, key, value, ttl, now, pos) ==
    IF ttl # 0
    THEN [st EXCEPT
            !.keyValueDictionary = Dictionary_set(@, key, value, TRUE),
            !.setSortedKeyPtr = @ \cup {key},
            !.keyTtlDictionary =
                IF has_value(Dictionary_get(@, key).ret) THEN @
                ELSE Dictionary_set(@, key, ttl + now, TRUE),
            !.setSortedTtlPtr =
                InsertAt(@, pos, [key |-> key, ttl |-> ttl + now])]
    ELSE [st EXCEPT
            !.keyValueDictionary = Dictionary_set(@, key, value, TRUE),
            !.setSortedKeyPtr = @ \cup {key}]

\* A faulty set: the key-ordered set is not told of the key.
set_noKeyIndex(st, key, value, ttl, now, pos) ==
    IF ttl # 0
    THEN [st EXCEPT
            !.keyValueDictionary = Dictionary_set(@, key, value, TRUE),
            !.keyTtlDictionary = Dictionary_set(@, key, ttl + now, TRUE),
            !.setSortedTtlPtr =
                InsertAt(@, pos, [key |-> key, ttl |-> ttl + now])]
    ELSE [st EXCEPT
            !.keyValueDictionary = Dictionary_set(@, key, value, TRUE)]

\* InMemoryKVStorage::set at clock time now; pos is the place the allocator
\* gives the new (key, deadline) pair in setSortedTtlPtr.  The tables of a
\* storage are never rehashing, so what the faulty branch of Dictionary::set
\* does is not consulted.
set(st, key, value, ttl, now, pos) ==
    IF ttl # 0
    THEN [st EXCEPT
            !.keyValueDictionary = Dictionary_set(@, key, value, TRUE),
            !.setSortedKeyPtr = @ \cup {key},
            !.keyTtlDictionary = Dictionary_set(@, key, ttl + now, TRUE),
            !.setSortedTtlPtr =
                InsertAt(@, pos, [key |-> key, ttl |-> ttl + now])]
    ELSE [st EXCEPT
            !.keyValueDictionary = Dictionary_set(@, key, value, TRUE),
            !.setSortedKeyPtr = @ \cup {key}]

\* A faulty remove: the value index keeps the entry.
remove_erase_keepValue(st, key, oTtl) ==
    [st |-> [st EXCEPT
               !.setSortedKeyPtr = @ \ {key},
               !.keyTtlDictionary = Dictionary_remove(@, key).d,
               !.setSortedTtlPtr = EraseFirst(@, key)],
     ret |-> TRUE]

\* remove, from the erasure of the value index and the key-ordered set on;
\* oTtl is the optional the code tests, read from the value index.
remove_erase(st, key, oTtl) ==
    IF has_value(oTtl)
    THEN [st |-> [st EXCEPT
                    !.keyValueDictionary = Dictionary_remove(@, key).d,
                    !.setSortedKeyPtr = @ \ {key},
                    !.keyTtlDictionary = Dictionary_remove(@, key).d,
                    !.setSortedTtlPtr = EraseFirst(@, key)],
          ret |-> TRUE]
    ELSE [st |-> [st EXCEPT
                    !.keyValueDictionary = Dictionary_remove(@, key).d,
                    !.setSortedKeyPtr = @ \ {key}],
          ret |-> TRUE]

\* remove, from the lookup `oTtl = _keyValueDictionary.get(key)` on.
remove_lookup(st, key, oTtl) ==
    remove_erase(AfterValueLookup(st, oTtl), key, oTtl.ret)

\* remove, given what isExist returned.
remove_exist(exist, key) ==
    IF ~exist.ret THEN [st |-> exist.st, ret |-> FALSE]
    ELSE remove_lookup(exist.st, key,
                       Dictionary_get(exist.st.keyValueDictionary, key))

\* InMemoryKVStorage::remove; [st, ret].
remove(st, key) == remove_exist(isExist(st, key), key)

\* get, given the result of the final lookup.
get_value(st, value) ==
    [st |-> AfterValueLookup(st, value), ret |-> <<value_of(value.ret)>>]

\* A faulty get: an entry found expired is removed on the spot.
get_expired_evicting(expired, key) ==
    IF expired.ret THEN [st |-> remove(expired.st, key).st, ret |-> <<>>]
    ELSE get_value(expired.st,
                   Dictionary_get(expired.st.keyValueDictionary, key))

\* get, given what isExpired returned.
get_expired(expired, key) ==
    IF expired.ret THEN [st |-> expired.st, ret |-> <<>>]
    ELSE get_value(expired.st,
                   Dictionary_get(expired.st.keyValueDictionary, key))

\* get, given what isExist returned.
get_exist(exist, key, now) ==
    IF ~exist.ret THEN [st |-> exist.st, ret |-> <<>>]
    ELSE get_expired(isExpired(exist.st, key, now), key)

\* InMemoryKVStorage::get at clock time now; [st, ret] with ret an optional.
get(st, key, now) == get_exist(isExist(st, key), key, now)

\* The loop of getManySorted from iterator position `it` (the keys left to
\* visit) and counter i; [st, ret, thrown], thrown when value() is called on
\* an empty optional.
RECURSIVE getManySortedLoop(_, _, _, _, _, _)

\* The loop body for a key that is not expired, given what get returned.
getManySorted_push(value, it, i, count, now, result) ==
    IF ~has_value(value.ret)
    THEN [st |-> value.st, ret |-> result, thrown |-> TRUE]
    ELSE getManySortedLoop(value.st, Tail(it), i + 1, count, now,
                           Append(result, <<Head(it), value_of(value.ret)>>))

\* A faulty loop body: an expired key is skipped and counted.
getManySorted_body_counting(expired, it, i, count, now, result) ==
    IF expired.ret
    THEN getManySortedLoop(expired.st, Tail(it), i + 1, count, now, result)
    ELSE getManySorted_push(get(expired.st, Head(it), now),
                            it, i, count, now, result)

\* The loop body, given what isExpired returned.  An expired key takes i back
\* by one before the loop's own ++i, so i is unchanged when it is next
\* compared with count.
getManySorted_body(expired, it, i, count, now, result) ==
    IF expired.ret
    THEN getManySortedLoop(expired.st, Tail(it), (i - 1) + 1, count, now, result)
    ELSE getManySorted_push(get(expired.st, Head(it), now),
                            it, i, count, now, result)

getManySortedLoop(st, it, i, count, now, result) ==
    IF ~(i < count /\ it # <<>>)
    THEN [st |-> st, ret |-> result, thrown |-> FALSE]
    ELSE getManySorted_body(isExpired(st, Head(it), now),
                            it, i, count, now, result)

\* A faulty lower_bound: begin().
lower_bound_begin(keys, key) == SortedKeys(keys)

\* _setSortedKeyPtr.lower_bound(key): the keys from the first one not less
\* than `key` on.
lower_bound(keys, key) == SortedKeys({k \in keys : ~KeyLess(k, key)})

\* InMemoryKVStorage::getManySorted; [st, ret, thrown], ret the vector of
\* (key, value) pairs.
getManySorted(st, key, count, now) ==
    getManySortedLoop(st, lower_bound(st.setSortedKeyPtr, key), 0, count, now,
                      <<>>)

\* removeOneExpiredEntry, given the result of the lookup of the value.
\* removeOneExpiredEntry_found deleting the expiration bookkeeping only.
removeOneExpiredEntry_found_keepValue(st, key, value) ==
    IF ~has_value(value.ret)
    THEN [st |-> AfterValueLookup(st, value), ret |-> <<>>, thrown |-> TRUE]
    ELSE [st |-> remove_erase_keepValue(AfterValueLookup(st, value), key,
                                        value.ret).st,
          ret |-> <<<<key, value_of(value.ret)>>>>,
          thrown |-> FALSE]

removeOneExpiredEntry_found(st, key, value) ==
    IF ~has_value(value.ret)
    THEN [st |-> AfterValueLookup(st, value), ret |-> <<>>, thrown |-> TRUE]
    ELSE [st |-> remove(AfterValueLookup(st, value), key).st,
          ret |-> <<<<key, value_of(value.ret)>>>>,
          thrown |-> FALSE]

\* InMemoryKVStorage::removeOneExpiredEntry; [st, ret, thrown], ret an optional
\* (key, value) pair; thrown when value() is called on an empty optional.
removeOneExpiredEntry(st, now) ==
    IF st.setSortedTtlPtr # <<>> /\ st.setSortedTtlPtr[1].ttl < now
    THEN removeOneExpiredEntry_found(
             st, st.setSortedTtlPtr[1].key,
             Dictionary_get(st.keyValueDictionary, st.setSortedTtlPtr[1].key))
    ELSE [st |-> st, ret |-> <<>>, thrown |-> FALSE]

(***************************************************************************)
(*                  The storage under a mock clock                         *)
(***************************************************************************)

VARIABLES
    keyValueDictionary,   \* Dictionary<Key, Value>
    keyTtlDictionary,     \* Dictionary<Key, Ttl>
    setSortedKeyPtr,      \* the key-ordered set
    setSortedTtlPtr,      \* the expiration-ordered set
    currentTime,          \* MockClock::currentTime
    last,                 \* the last call that is not a read: [op, key, ret, thrown]
    entries,              \* history: per key, the entry its latest set made
    dict,                 \* a Dictionary exercised on its own
    dictLast,             \* its last call that is not a read: [op, key, ret]
    dictEntries,          \* history: per key, the value its latest set gave it
    filled,               \* the number of keys FillDictionary has inserted
    drained               \* the number of those removed again, oldest first

storageVars == <<keyValueDictionary, keyTtlDictionary, setSortedKeyPtr,
                 setSortedTtlPtr, currentTime, last, entries>>
dictVars == <<dict, dictLast, dictEntries, filled, drained>>
vars == <<storageVars, dictVars>>

\* The storage object the members make up.
this == Storage(keyValueDictionary, keyTtlDictionary, setSortedKeyPtr,
                setSortedTtlPtr)

\* The members take the values of storage st.
Becomes(st) ==
    /\ keyValueDictionary' = st.keyValueDictionary
    /\ keyTtlDictionary' = st.keyTtlDictionary
    /\ setSortedKeyPtr' = st.setSortedKeyPtr
    /\ setSortedTtlPtr' = st.setSortedTtlPtr

Call(op, key, ret, thrown) ==
    [op |-> op, key |-> key, ret |-> ret, thrown |-> thrown]

\* The entry a call set(key, value, ttl) at clock time now makes, as the
\* history keeps it: the value, the deadline now + ttl (0: permanent) and
\* whether the call overwrote an entry.
Entry(value, ttl, now, old) ==
    [value |-> value,
     deadline |-> IF ttl = 0 THEN 0 ELSE now + ttl,
     over |-> has_value(old)]

\* InMemoryKVStorage(clock) with MockClock clock(0): two tables of the default
\* capacity, two empty sets.
DictCall(op, key, ret) == [op |-> op, key |-> key, ret |-> ret]

\* The history of a Dictionary no call has been made on.
DictNew ==
    /\ dictLast = DictCall("new", 0, <<>>)
    /\ dictEntries = [k \in DictKeys |-> <<>>]
    /\ filled = 0
    /\ drained = 0

NewStorage ==
    /\ keyValueDictionary = Dictionary(BASIC_DICTIONARY_SIZE, StdHash)
    /\ keyTtlDictionary = Dictionary(BASIC_DICTIONARY_SIZE, StdHash)
    /\ setSortedKeyPtr = {}
    /\ setSortedTtlPtr = <<>>
    /\ currentTime = 0
    /\ last = Call("new", <<>>, <<>>, FALSE)
    /\ entries = [k \in Keys |-> <<>>]

Init ==
    /\ NewStorage
    /\ dict = Dictionary(BASIC_DICTIONARY_SIZE, ConflictHash)
    /\ DictNew

\* storage.set(key, value, ttl)
Set(key, value, ttl, pos) ==
    /\ ttl # 0 => Len(setSortedTtlPtr) < MaxTtlPairs
    /\ Becomes(set(this, key, value, ttl, currentTime, pos))
    /\ last' = Call("set", key, <<>>, FALSE)
    /\ entries' = [entries EXCEPT
                      ![key] = <<Entry(value, ttl, currentTime, @)>>]
    /\ UNCHANGED <<currentTime, dictVars>>

\* storage.remove(key), r what remove returns
Removed(key, r) ==
    /\ Becomes(r.st)
    /\ last' = Call("remove", key, r.ret, FALSE)
    /\ entries' = [entries EXCEPT ![key] = <<>>]
    /\ UNCHANGED <<currentTime, dictVars>>

Remove(key) == Removed(key, remove(this, key))

\* storage.get(key): what it returns is get(this, key, currentTime).ret.
Get(key) ==
    /\ Becomes(get(this, key, currentTime).st)
    /\ UNCHANGED <<currentTime, last, entries, dictVars>>

\* storage.getManySorted(key, count): what it returns is
\* getManySorted(this, key, count, currentTime).ret.
GetManySorted(key, count) ==
    /\ Becomes(getManySorted(this, key, count, currentTime).st)
    /\ UNCHANGED <<currentTime, last, entries, dictVars>>

\* storage.removeOneExpiredEntry(); the history drops the key it returns.
Reclaimed(r) ==
    /\ Becomes(r.st)
    /\ last' = Call("removeOneExpiredEntry", <<>>, r.ret, r.thrown)
    /\ entries' = IF has_value(r.ret)
                  THEN [entries EXCEPT ![value_of(r.ret)[1]] = <<>>]
                  ELSE entries
    /\ UNCHANGED <<currentTime, dictVars>>

RemoveOneExpiredEntry == Reclaimed(removeOneExpiredEntry(this, currentTime))

\* clock.advance(sec)
Advance(sec) ==
    /\ currentTime + sec <= MaxClock
    /\ currentTime' = currentTime + sec
    /\ last' = Call("advance", <<>>, <<>>, FALSE)
    /\ UNCHANGED <<keyValueDictionary, keyTtlDictionary, setSortedKeyPtr,
                   setSortedTtlPtr, entries, dictVars>>

Next ==
    \/ \E key \in Keys, value \in Values, ttl \in Ttls :
           \E pos \in 1..(IF ttl # 0 THEN Len(setSortedTtlPtr) + 1 ELSE 1) :
               Set(key, value, ttl, pos)
    \/ \E key \in Keys : Remove(key)
    \/ \E key \in Keys : Get(key)
    \/ \E key \in StartKeys, count \in 0..MaxCount : GetManySorted(key, count)
    \/ RemoveOneExpiredEntry
    \/ \E sec \in 1..MaxClock : Advance(sec)

Spec == Init /\ [][Next]_vars

\* The drain scenario: set calls and clock advances, then nothing but
\* removeOneExpiredEntry calls.
Filling == last.op \in {"new", "set", "advance"}

DrainNext ==
    \/ /\ Filling
       /\ \E key \in Keys, value \in Values, ttl \in Ttls :
              \E pos \in 1..(IF ttl # 0 THEN Len(setSortedTtlPtr) + 1 ELSE 1) :
                  Set(key, value, ttl, pos)
    \/ /\ Filling
       /\ \E sec \in 1..MaxClock : Advance(sec)
    \/ RemoveOneExpiredEntry

SpecDrain == Init /\ [][DrainNext]_vars

(***************************************************************************)
(*                      A Dictionary on its own                            *)
(***************************************************************************)

\* Dictionary<Key, Value, Hash> dict(capacity), for each capacity and hash
\* functor of the model.
DictionaryInit ==
    /\ NewStorage
    /\ dict \in {Dictionary(capacity, hash) :
                    capacity \in Capacities, hash \in Hashes}
    /\ DictNew

\* The state after a call that leaves `d` and is recorded as `call`; a call
\* is made only while no earlier one had undefined behaviour.
DictBecomes(d, call, value) ==
    /\ ~dict.ub
    /\ dict' = d
    /\ dictLast' = call
    /\ dictEntries' = [dictEntries EXCEPT ![call.key] = value]
    /\ UNCHANGED storageVars

\* dict.set(key, value) for a key set at will
DictionarySet(key, value) ==
    /\ dict.dictionaryUsed < MaxUsed
    /\ \E faults \in BOOLEAN :
           DictBecomes(Dictionary_set(dict, key, value, faults),
                       DictCall("set", key, <<>>), <<value>>)
    /\ UNCHANGED <<filled, drained>>

\* The next iteration of FillDictionary: dict.set of the next key.
FillDictionary ==
    /\ filled < MaxFill
    /\ dict.dictionaryUsed < MaxUsed
    /\ \E faults \in BOOLEAN :
           DictBecomes(Dictionary_set(dict, 3 + filled, "v1", faults),
                       DictCall("set", 3 + filled, <<>>), <<"v1">>)
    /\ filled' = filled + 1
    /\ UNCHANGED drained

\* dict.remove(key), r what remove returns
DictionaryRemoved(key, r) ==
    DictBecomes(r.d, DictCall("remove", key, r.ret), <<>>)

\* dict.remove(key) for a key set at will
DictionaryRemove(key) ==
    /\ DictionaryRemoved(key, Dictionary_remove(dict, key))
    /\ UNCHANGED <<filled, drained>>

\* dict.remove of the oldest key FillDictionary inserted that is left.
DrainDictionary ==
    /\ drained < filled
    /\ DictionaryRemoved(3 + drained, Dictionary_remove(dict, 3 + drained))
    /\ drained' = drained + 1
    /\ UNCHANGED filled

\* A read leaves table d; what it returns is Dictionary_get(dict, key).ret
\* or Dictionary_find(dict, key).ret.
DictionaryRead(d) ==
    /\ ~dict.ub
    /\ dict' = d
    /\ UNCHANGED <<dictLast, dictEntries, filled, drained, storageVars>>

\* dict.get(key)
DictionaryGet(key) == DictionaryRead(Dictionary_get(dict, key).d)

\* dict.find(key)
DictionaryFind(key) == DictionaryRead(Dictionary_find(dict, key).d)

DictionaryNext ==
    \/ \E key \in FreeKeys, value \in Values : DictionarySet(key, value)
    \/ FillDictionary
    \/ \E key \in FreeKeys : DictionaryRemove(key)
    \/ DrainDictionary
    \/ \E key \in DictKeys : DictionaryGet(key)
    \/ \E key \in DictKeys : DictionaryFind(key)

SpecDictionary == DictionaryInit /\ [][DictionaryNext]_vars

(***************************************************************************)
(*                             Properties                                  *)
(***************************************************************************)

\* What storage.get(key) returns in the current state, at the current time.
Result(key) == get(this, key, currentTime).ret

\* The key has been set and not removed or reclaimed since.
Stored(key) == has_value(entries[key])
\* The value and the deadline (0: none) the latest set of a stored key gave it.
Value(key) == value_of(entries[key]).value
Deadline(key) == value_of(entries[key]).deadline
\* The latest set of the stored key found the key stored.
Overwritten(key) == value_of(entries[key]).over
\* The stored key's deadline is strictly before the current clock time.
Expired(key) == Stored(key) /\ Deadline(key) # 0 /\ Deadline(key) < currentTime

\* The number of chain nodes the table holds for the key.
NodesOf(d, key) ==
    Cardinality({<<i, j>> \in (DOMAIN d.dictionary) \X (1..Cardinality(Keys)) :
                    j <= Len(d.dictionary[i]) /\ d.dictionary[i][j].key = key})
    + Cardinality({<<i, j>> \in (DOMAIN d.alternativeDictionary)
                                    \X (1..Cardinality(Keys)) :
                    /\ j <= Len(d.alternativeDictionary[i])
                    /\ d.alternativeDictionary[i][j].key = key})

\* C1: after set(k, v, 0), get(k) returns v at every later clock time, until
\* the next set or remove of k, whatever calls preceded the set.
C1_PermanentRoundTrip ==
    \A k \in Keys :
        (Stored(k) /\ Deadline(k) = 0) => Result(k) = <<Value(k)>>

\* C2 as stated: after set(k, v, t) with t > 0 at time T0 and no later set or
\* remove of k, get(k) returns v at every clock time < T0 + t and nothing at
\* every clock time >= T0 + t.
C2_ExpiresAtDeadline ==
    \A k \in Keys :
        (Stored(k) /\ Deadline(k) # 0) =>
            Result(k) = IF currentTime < Deadline(k) THEN <<Value(k)>> ELSE <<>>

\* C2 as amended: after set(k, v, t) with t > 0 at time T0 and no later set or
\* remove of k, get(k) returns v at every clock time <= T0 + t and nothing at
\* every clock time > T0 + t.
C2_ExpiresAfterDeadline ==
    \A k \in Keys :
        (Stored(k) /\ Deadline(k) # 0) =>
            Result(k) = IF currentTime <= Deadline(k) THEN <<Value(k)>> ELSE <<>>

\* The clock stands at the deadline of a stored key, which get still returns.
C2_AtDeadline ==
    \E k \in Keys :
        /\ Stored(k) /\ Deadline(k) # 0
        /\ currentTime = Deadline(k)
        /\ Result(k) = <<Value(k)>>

\* Every finite deadline of a stored key has passed.
AllDeadlinesPassed ==
    \A k \in Keys : (Stored(k) /\ Deadline(k) # 0) => Deadline(k) < currentTime

\* C3: after set calls and clock advances that take the clock past every
\* finite deadline, each removeOneExpiredEntry call completes, returns an
\* expired entry not returned before, with its current value, as long as one
\* is left, and returns nothing once none is left.
C3_DrainsEachExpiredOnce ==
    [][(RemoveOneExpiredEntry /\ AllDeadlinesPassed) =>
          /\ ~last'.thrown
          /\ IF \E k \in Keys : Expired(k)
             THEN /\ has_value(last'.ret)
                  /\ Expired(value_of(last'.ret)[1])
                  /\ value_of(last'.ret)[2] = Value(value_of(last'.ret)[1])
                  /\ entries'[value_of(last'.ret)[1]] = <<>>
             ELSE last'.ret = <<>>]_vars

\* C4: whenever a stored key has a finite deadline strictly before the
\* current clock time, removeOneExpiredEntry returns a (key, value) pair: a
\* call that returned nothing left no such key behind.
C4_FindsAnExpiredEntry ==
    (last.op = "removeOneExpiredEntry" /\ ~has_value(last.ret)) =>
        ~(\E k \in Keys : Expired(k))

\* C5: a pair (k, v) returned by removeOneExpiredEntry is an entry whose
\* current deadline is strictly before the current clock time, which get(k)
\* no longer returned; when no such entry exists the call returns nothing and
\* removes nothing.
C5_ReclaimsOnlyExpired ==
    [][RemoveOneExpiredEntry =>
          /\ has_value(last'.ret) =>
                /\ Expired(value_of(last'.ret)[1])
                /\ Result(value_of(last'.ret)[1]) = <<>>
          /\ ~(\E k \in Keys : Expired(k)) =>
                /\ last'.ret = <<>>
                /\ this' = this]_vars

\* C6: set(k, v2, t2) issued when k is stored makes a get(k) at the clock time
\* of that set return v2, and the storage holds one entry for k.
C6_Overwrite ==
    (last.op = "set" /\ Overwritten(last.key)) =>
        /\ Result(last.key) = <<Value(last.key)>>
        /\ NodesOf(keyValueDictionary, last.key) = 1
        /\ last.key \in setSortedKeyPtr

\* C7: after set(k, v1, t1) followed by set(k, v2, t2) with t2 > 0 at time T2,
\* the expiration index holds T2 + t2 for k and get(k) is governed by it
\* alone: v2 while the clock has not passed T2 + t2, nothing once it has.
C7_TtlUpdate ==
    \A k \in Keys :
        (Stored(k) /\ Overwritten(k) /\ Deadline(k) # 0) =>
            /\ Dictionary_get(keyTtlDictionary, k).ret = <<Deadline(k)>>
            /\ Result(k) = IF currentTime <= Deadline(k) THEN <<Value(k)>>
                           ELSE <<>>

\* A key set twice is returned with its new value under its new deadline
\* although the deadline of its first set, still in the expiration-ordered
\* set, has passed.
C7_OldDeadlinePassed ==
    \E k \in Keys :
        /\ Stored(k) /\ Overwritten(k) /\ Deadline(k) # 0
        /\ currentTime <= Deadline(k)
        /\ \E i \in DOMAIN setSortedTtlPtr :
               /\ setSortedTtlPtr[i].key = k
               /\ setSortedTtlPtr[i].ttl < currentTime
        /\ Result(k) = <<Value(k)>>

\* C8: remove(k) returns true exactly when k is stored, expired or not; after
\* it get(k) returns nothing and a repeated remove(k) returns false.
C8_Remove ==
    [][\A k \in Keys :
          Remove(k) =>
              /\ last'.ret = Stored(k)
              /\ get(this', k, currentTime').ret = <<>>
              /\ remove(this', k).ret = FALSE]_vars

\* remove has returned true for a key after the clock moved.
C8_Removed ==
    /\ last.op = "remove" /\ last.ret = TRUE
    /\ currentTime > 0
    /\ ~Stored(last.key)

\* The keys of a scan result.
ScanKeys(ret) == [i \in DOMAIN ret |-> ret[i][1]]

\* C9: getManySorted(s, n) returns keys in strictly increasing lexicographic
\* order, all >= s, at most n of them, none expired and none removed.
C9_ScanOrder ==
    \A s \in StartKeys, n \in 0..MaxCount :
        LET r == getManySorted(this, s, n, currentTime)
            ks == ScanKeys(r.ret)
        IN /\ ~r.thrown
           /\ Len(ks) <= n
           /\ \A i \in DOMAIN ks :
                  /\ ~KeyLess(ks[i], s)
                  /\ Stored(ks[i])
                  /\ ~Expired(ks[i])
           /\ \A i \in DOMAIN ks : i > 1 => KeyLess(ks[i - 1], ks[i])

\* A scan from "a" returns both keys, one of them with a deadline not passed.
C9_TwoKeys ==
    /\ Len(getManySorted(this, <<1>>, 2, currentTime).ret) = 2
    /\ \E k \in Keys : Stored(k) /\ Deadline(k) # 0 /\ currentTime > 0

\* The first n elements of a sequence.
Take(seq, n) == SubSeq(seq, 1, Min(n, Len(seq)))

\* The keys >= s that get returns a value for, in ascending order, each with
\* that value.
LiveFrom(s) ==
    LET ks == SortedKeys({k \in Keys : ~KeyLess(k, s) /\ has_value(Result(k))})
    IN [i \in DOMAIN ks |-> <<ks[i], value_of(Result(ks[i]))>>]

\* C10: getManySorted(s, n) returns exactly the n smallest keys >= s that get
\* returns a value for (all of them when there are fewer), each with that
\* value: expired entries on the way do not count against n.
C10_ScanComplete ==
    \A s \in StartKeys, n \in 0..MaxCount :
        getManySorted(this, s, n, currentTime).ret = Take(LiveFrom(s), n)

\* A scan for one entry skips the expired "a" and returns "aa".
C10_SkipsExpired ==
    /\ Expired(<<1>>)
    /\ <<1>> \in setSortedKeyPtr
    /\ Len(getManySorted(this, <<>>, 1, currentTime).ret) = 1
    /\ getManySorted(this, <<>>, 1, currentTime).ret[1][1] = <<1, 1>>

\* C11: in every reachable state of the storage each operation completes
\* without raising a fault, and removeOneExpiredEntry yields a (key, value)
\* pair or an empty result.
C11_Totality ==
    /\ ~last.thrown
    /\ ~keyValueDictionary.ub /\ ~keyTtlDictionary.ub
    /\ \A s \in StartKeys, n \in 0..MaxCount :
           ~getManySorted(this, s, n, currentTime).thrown
    /\ ~removeOneExpiredEntry(this, currentTime).thrown

(* ------------------------ Dictionary properties ------------------------ *)

\* What dict.get(key) and dict.find(key) return in the current state.
DictGot(key) == Dictionary_get(dict, key).ret
DictFound(key) == Dictionary_find(dict, key).ret
\* The keys dict.get returns a value for.
DictLive == {k \in DictKeys : has_value(DictGot(k))}
\* The keys set and not removed since.
DictSet == {k \in DictKeys : has_value(dictEntries[k])}

\* C12: a Dictionary of the default capacity 8 is a map, whatever the hash
\* function: get(k) returns the value of the latest set(k, .) not followed by
\* remove(k) and nothing otherwise, find(k) is non-empty exactly when get(k)
\* is, and remove(k) returns true iff k was present.
C12_IsMap ==
    dict.dictionarySize = BASIC_DICTIONARY_SIZE =>
        /\ ~dict.ub
        /\ \A k \in DictKeys :
               /\ DictGot(k) = dictEntries[k]
               /\ has_value(DictFound(k)) <=> has_value(DictGot(k))
               /\ has_value(DictFound(k)) =>
                      value_of(DictFound(k)) = <<k, value_of(dictEntries[k])>>
               /\ Dictionary_remove(dict, k).ret = has_value(dictEntries[k])
        /\ dictLast.op = "remove" =>
               /\ DictGot(dictLast.key) = <<>>
               /\ ~Dictionary_remove(dict, dictLast.key).ret

\* In a table of capacity 8 whose keys all share one bucket, a key has been
\* removed from inside the chain and another holds an overwritten value.
C12_ChainedMap ==
    /\ dict.dictionarySize = BASIC_DICTIONARY_SIZE
    /\ dict.hashFunction = ConflictHash
    /\ dictLast.op = "remove" /\ dictLast.ret = TRUE
    /\ Len(dict.dictionary[1]) >= 3
    /\ \E i \in 2..Len(dict.dictionary[1]) :
           /\ dict.dictionary[1][i].key > dictLast.key
           /\ dict.dictionary[1][i - 1].key < dictLast.key
    /\ \E k \in FreeKeys : dictEntries[k] = <<"v2">> /\ DictGot(k) = <<"v2">>

\* C13: once the fill factor exceeds 1.2, as soon as an operation leaves no
\* rehash in progress, every key inserted and not removed is returned by get
\* with its latest value.
C13_GrowthKeepsData ==
    (fillFactorAboveHigh(dict) /\ ~dict.ub) =>
        \A k \in DictSet :
            ~isRehashing(Dictionary_get(dict, k).d) =>
                DictGot(k) = dictEntries[k]

\* C14: once a shrink rehash scheduled under the fill factor 0.01 has run to
\* completion, every key not removed is returned by get with its value and
\* bucket accesses stay inside the array that became primary.
C14_ShrinkKeepsData ==
    (/\ dict.alternativeDictionarySize # 0
     /\ dict.alternativeDictionarySize < dict.dictionarySize
     /\ ~isRehashing(dict)) =>
        /\ ~dict.ub
        /\ \A k \in DictSet :
               /\ DictGot(k) = dictEntries[k]
               /\ ~Dictionary_get(dict, k).d.ub

C16_SizeAccounting ==
    ~dict.ub =>
        /\ Dictionary_size(dict) = Cardinality(DictLive)
        /\ Dictionary_empty(dict) <=> DictLive = {}
        /\ \A k \in DictLive, v \in Values :
               Dictionary_size(Dictionary_set(dict, k, v, TRUE)) = Dictionary_size(dict)

(* ------------------------- storage invariants ------------------------- *)

\* The pairs the expiration-ordered set holds for the key.
PairsOf(key) == {i \in DOMAIN setSortedTtlPtr : setSortedTtlPtr[i].key = key}

\* C17: the keys in the expiration index are exactly the stored keys whose
\* latest set used a non-zero TTL, and the expiration-ordered set holds
\* exactly one pair for each such key, with the time of the expiration index,
\* and no pair for any other key.
C17_ExpirationBookkeeping ==
    \A k \in Keys :
        IF Stored(k) /\ Deadline(k) # 0
        THEN /\ NodesOf(keyTtlDictionary, k) = 1
             /\ Dictionary_get(keyTtlDictionary, k).ret = <<Deadline(k)>>
             /\ Cardinality(PairsOf(k)) = 1
             /\ \A i \in PairsOf(k) : setSortedTtlPtr[i].ttl = Deadline(k)
        ELSE /\ NodesOf(keyTtlDictionary, k) = 0
             /\ PairsOf(k) = {}

\* C18: after remove(k) returned true, whatever sets k had, no structure holds
\* an entry for k: not the value index, the key-ordered set, the expiration
\* index, nor any pair of the expiration-ordered set.
C18_RemovePurges ==
    (last.op = "remove" /\ last.ret = TRUE) =>
        /\ NodesOf(keyValueDictionary, last.key) = 0
        /\ last.key \notin setSortedKeyPtr
        /\ NodesOf(keyTtlDictionary, last.key) = 0
        /\ PairsOf(last.key) = {}

\* C19: a key is in the key-ordered set if and only if it is present in the
\* value index, and the key-ordered set holds at most one element per key.
C19_KeyIndex ==
    /\ setSortedKeyPtr \subseteq Keys
    /\ \A k \in Keys :
           /\ k \in setSortedKeyPtr <=> NodesOf(keyValueDictionary, k) >= 1
           /\ k \in setSortedKeyPtr <=> has_value(Dictionary_get(keyValueDictionary, k).ret)
           /\ k \in setSortedKeyPtr <=> Stored(k)
    /\ Len(SortedKeys(setSortedKeyPtr)) = Cardinality(setSortedKeyPtr)
    /\ \A i, j \in DOMAIN SortedKeys(setSortedKeyPtr) :
           i < j => KeyLess(SortedKeys(setSortedKeyPtr)[i],
                            SortedKeys(setSortedKeyPtr)[j])

\* A key set twice is in the key-ordered set after the other key, set as
\* well, has been removed.
C19_ResetAndRemoved ==
    /\ last.op = "remove" /\ last.ret = TRUE
    /\ \E k \in Keys :
           /\ k # last.key
           /\ Stored(k) /\ Overwritten(k)
           /\ setSortedKeyPtr = {k}

\* C20: get(k) and getManySorted(s, n) leave the value index, the expiration
\* index, the key-ordered set and the expiration-ordered set unchanged, also
\* when they meet expired entries; an expired entry stays in them until remove
\* or removeOneExpiredEntry deletes it.
C20_ReadsChangeNothing ==
    /\ \A k \in Keys : get(this, k, currentTime).st = this
    /\ \A s \in StartKeys, n \in 0..MaxCount :
           getManySorted(this, s, n, currentTime).st = this
    /\ \A k \in Keys :
           Expired(k) =>
               /\ NodesOf(keyValueDictionary, k) = 1
               /\ NodesOf(keyTtlDictionary, k) = 1
               /\ k \in setSortedKeyPtr
               /\ PairsOf(k) # {}

\* An expired entry, which get does not return and a scan skips, is still
\* held by the storage.
C20_ExpiredStillStored ==
    \E k \in Keys :
        /\ Expired(k)
        /\ Result(k) = <<>>
        /\ getManySorted(this, k, 1, currentTime).ret # <<>>
        /\ getManySorted(this, k, 1, currentTime).ret[1][1] # k
        /\ NodesOf(keyValueDictionary, k) = 1

\* C21: set(k, ., .), remove(k) and a removeOneExpiredEntry call that returns
\* (k, .) leave the result of get(k') unchanged for every key k' other than k,
\* and a removeOneExpiredEntry call that returns nothing changes no key's get
\* result.
C21_PerKeyFrame ==
    [][/\ (last'.op \in {"set", "remove"} /\ currentTime' = currentTime) =>
              \A k \in Keys \ {last'.key} :
                  get(this', k, currentTime').ret = Result(k)
       /\ (RemoveOneExpiredEntry /\ has_value(last'.ret)) =>
              \A k \in Keys \ {value_of(last'.ret)[1]} :
                  get(this', k, currentTime').ret = Result(k)
       /\ (RemoveOneExpiredEntry /\ ~has_value(last'.ret)) =>
              \A k \in Keys : get(this', k, currentTime').ret = Result(k)]_vars

\* A key has been removed while the other key, which shares its bucket, is
\* stored and returned by get.
C21_NeighbourKept ==
    /\ \/ last.op = "remove" /\ last.ret = TRUE
       \/ last.op = "removeOneExpiredEntry" /\ has_value(last.ret)
    /\ \E k \in Keys :
           /\ Stored(k) /\ Overwritten(k)
           /\ Result(k) = <<Value(k)>>
           /\ NodesOf(keyValueDictionary, k) = 1

\* The number of chain nodes the array named by pDictionary holds for the key.
NodesIn(d, pDictionary, key) ==
    Cardinality({<<i, j>> \in (DOMAIN d[pDictionary]) \X (1..Cardinality(DictKeys)) :
                    /\ j <= Len(d[pDictionary][i])
                    /\ d[pDictionary][i][j].key = key})

\* C22: in every reachable state of a Dictionary, for any hash function, each
\* key has at most one chain node over the primary and the alternative table
\* together; while a rehash is in progress no key is present in both.
C22_ExactlyOneTable ==
    \A k \in DictKeys :
        /\ NodesIn(dict, "dictionary", k)
               + NodesIn(dict, "alternativeDictionary", k) <= 1
        /\ isRehashing(dict) =>
               ~(/\ NodesIn(dict, "dictionary", k) >= 1
                 /\ NodesIn(dict, "alternativeDictionary", k) >= 1)

\* C23: a set(k, v) issued while a rehash is in progress completes without
\* fault and leaves k with value v in the alternative table and absent from
\* the primary table, and get(k) returns v afterwards.
C23_SetDuringRehash ==
    (dictLast.op = "set" /\ isRehashing(dict)) =>
        /\ ~dict.ub
        /\ Dictionary__get(dict, dictLast.key, "alternativeDictionary",
                           dict.alternativeDictionarySize)
               = <<[key |-> dictLast.key,
                    value |-> value_of(dictEntries[dictLast.key])]>>
        /\ NodesIn(dict, "dictionary", dictLast.key) = 0
        /\ DictGot(dictLast.key) = dictEntries[dictLast.key]

\* C24: when a rehash has completed, the capacity used for bucket indexing
\* and for the fill factor equals the target chosen when the rehash was
\* scheduled, and equals the length of the array that became primary.
C24_CapacityAfterRehash ==
    (dict.alternativeDictionarySize # 0 /\ ~isRehashing(dict)) =>
        /\ dict.dictionarySize = dict.alternativeDictionarySize
        /\ Cardinality(DOMAIN dict.dictionary) = dict.dictionarySize

\* The target capacity of a rehash scheduled on d.
RehashTarget(d) ==
    IF fillFactorBelowLow(d) THEN d.dictionarySize \div 2 ELSE d.dictionarySize * 2

\* The operation that led from d to e scheduled a rehash of d: the target
\* was recorded and an alternative array of that length allocated, which is
\* either still being filled (cursor after the first batch) or, when the
\* whole table fits in one batch, already the primary array.
Scheduled(d, e) ==
    /\ e.alternativeDictionarySize = RehashTarget(d)
    /\ IF d.dictionarySize <= DICTIONARY_REHASH_BUCKET_COUNT
       THEN /\ ~isRehashing(e)
            /\ DOMAIN e.dictionary = 0..(RehashTarget(d) - 1)
       ELSE /\ e.rehashIndex = DICTIONARY_REHASH_BUCKET_COUNT
            /\ DOMAIN e.alternativeDictionary = 0..(RehashTarget(d) - 1)

\* The operation that led from d to e scheduled no rehash.
NotScheduled(d, e) ==
    /\ ~isRehashing(e)
    /\ e.alternativeDictionarySize = d.alternativeDictionarySize
    /\ DOMAIN e.dictionary = DOMAIN d.dictionary
    /\ e.alternativeDictionary = <<>>

\* C25 as stated: on a Dictionary that is not rehashing, whenever capacity > 8
\* and the fill factor is below 0.01 or above 1.2, for every value of used
\* including 0, the next public operation schedules a rehash towards half
\* the capacity (low) or double the capacity (high).
C25_SchedulesAtAnyFill ==
    [][(/\ ~isRehashing(dict) /\ ~dict.ub
        /\ dict.dictionarySize > BASIC_DICTIONARY_SIZE
        /\ (fillFactorBelowLow(dict) \/ fillFactorAboveHigh(dict)))
           => Scheduled(dict, dict')]_vars

\* C25 amended: on a Dictionary that is not rehashing and has capacity > 8,
\* the next public operation schedules a rehash - towards half the capacity
\* when the fill factor is below 0.01, double when it is above 1.2 - exactly
\* when the fill factor is outside the band and used is not 0; an empty
\* table schedules none.
C25_SchedulesWhenOccupied ==
    [][(/\ ~isRehashing(dict) /\ ~dict.ub
        /\ dict.dictionarySize > BASIC_DICTIONARY_SIZE)
           => IF /\ dict.dictionaryUsed # 0
                 /\ (fillFactorBelowLow(dict) \/ fillFactorAboveHigh(dict))
              THEN Scheduled(dict, dict')
              ELSE NotScheduled(dict, dict')]_vars

\* A shrink rehash of a table of capacity 101 holding entries was scheduled
\* by the last operation.
C25_ShrinkScheduled ==
    /\ dict.dictionarySize = 101 /\ dict.dictionaryUsed # 0
    /\ dict.rehashIndex = DICTIONARY_REHASH_BUCKET_COUNT
    /\ dict.alternativeDictionarySize = 50
    /\ DOMAIN dict.alternativeDictionary = 0..49

Cursor(d) == IF isRehashing(d) THEN d.rehashIndex ELSE 0

Invisible(key) ==
    /\ NodesOf(keyValueDictionary, key) >= 1
    /\ Result(key) = <<>>

\* The step is a call set(key, ., .).
IsSet(key) ==
    \E value \in Values, ttl \in Ttls :
        \E pos \in 1..(IF ttl # 0 THEN Len(setSortedTtlPtr) + 1 ELSE 1) :
            Set(key, value, ttl, pos)

\* C28: with a non-decreasing clock, once get(k) returns nothing because k's
\* deadline passed, every step other than a set(k, ., .) - an operation on
\* another key, a remove, a read, a range scan, a removeOneExpiredEntry
\* call, a clock advance - leaves get(k) returning nothing.
C28_ExpiryStable ==
    [][\A k \in Keys :
           (Invisible(k) /\ ~IsSet(k)) =>
               /\ currentTime' >= currentTime
               /\ get(this', k, currentTime').ret = <<>>]_vars

\* An expired key is invisible after a set on the other key, and after a
\* removeOneExpiredEntry call that left it in the storage.
C28_StillInvisible ==
    \E k \in Keys :
        /\ Expired(k) /\ Invisible(k)
        /\ \/ last.op = "set" /\ last.key # k
           \/ last.op = "removeOneExpiredEntry"

\* The table has the base capacity, is not rehashing, has never scheduled a
\* rehash, and would schedule none whatever number of entries it held.
AtBaseForGood(d) ==
    /\ d.dictionarySize = BASIC_DICTIONARY_SIZE
    /\ DOMAIN d.dictionary = 0..(BASIC_DICTIONARY_SIZE - 1)
    /\ ~isRehashing(d)
    /\ d.alternativeDictionary = <<>>
    /\ d.alternativeDictionarySize = 0
    /\ ~d.ub
    /\ \A n \in 0..MaxUsed :
           preCommandActions([d EXCEPT !.dictionaryUsed = n])
               = [d EXCEPT !.dictionaryUsed = n]

\* C29: the value index and the expiration index of a storage are built at
\* the base capacity 8, and in every reachable state of the storage,
\* whatever number of entries it holds, neither table is rehashing and
\* neither table's capacity differs from 8.
C29_StorageNeverRehashes ==
    /\ AtBaseForGood(keyValueDictionary)
    /\ AtBaseForGood(keyTtlDictionary)

\* Both tables of the storage hold two entries in one bucket.
C29_BothTablesFilled ==
    /\ keyValueDictionary.dictionaryUsed = Cardinality(Keys)
    /\ keyTtlDictionary.dictionaryUsed = Cardinality(Keys)
    /\ \A k \in Keys : NodesOf(keyValueDictionary, k) = 1
    /\ \A k \in Keys : NodesOf(keyTtlDictionary, k) = 1

\* The capacity _set is given with the array named by pDictionary.
SizeOf(d, pDictionary) ==
    IF pDictionary = "dictionary" THEN d.dictionarySize
    ELSE d.alternativeDictionarySize

\* _set of a key the non-empty bucket `index` of the array does not hold
\* prepends the node to that bucket's chain and changes nothing else but
\* the entry count.
PrependsTo(d, key, pDictionary, index) ==
    Dictionary__set(d, key, "v1", pDictionary, SizeOf(d, pDictionary))
        = [d EXCEPT ![pDictionary][index] =
                        <<[key |-> key, value |-> "v1"]>> \o @,
                    !.dictionaryUsed = @ + 1]

\* C30: inserting a new key into a non-empty bucket of a table, primary or
\* alternative, makes the new node the head of that bucket with the former
\* head of the same bucket of the same table as successor: every key that
\* was in the bucket stays in it, and the other table is neither read nor
\* linked.
C30_PrependStaysInTable ==
    \A pDictionary \in {"dictionary", "alternativeDictionary"} :
        dict[pDictionary] # <<>> =>
            \A key \in DictKeys :
                LET index == getBucketIndex(dict, key, SizeOf(dict, pDictionary))
                IN (/\ index \in DOMAIN dict[pDictionary]
                    /\ dict[pDictionary][index] # <<>>
                    /\ ChainFind(dict[pDictionary][index], key) = 0)
                       => PrependsTo(dict, key, pDictionary, index)

\* The table is in the shape "not rehashing": the cursor is at the sentinel
\* and there is no alternative array.
ShapeIdle(d) ==
    /\ d.rehashIndex = -1
    /\ d.alternativeDictionary = <<>>

\* The table is in the shape "rehashing": an alternative array of half or
\* double the primary capacity is allocated and the cursor is strictly
\* between 0 and the primary capacity.
ShapeRehashing(d) ==
    /\ d.alternativeDictionary # <<>>
    /\ DOMAIN d.alternativeDictionary = 0..(d.alternativeDictionarySize - 1)
    /\ d.alternativeDictionarySize
           \in {d.dictionarySize \div 2, d.dictionarySize * 2}
    /\ 0 < d.rehashIndex
    /\ d.rehashIndex < d.dictionarySize

\* C31: between public operations (after an operation that returned without
\* fault) a Dictionary is either not rehashing - cursor at the sentinel and
\* no alternative array - or rehashing - an alternative array allocated
\* whose size is half or double the primary capacity and
\* 0 < cursor < primary capacity; and while a rehash is in progress the
\* cursor never decreases.
C31_TwoShapes ==
    /\ [](~dict.ub =>
              IF isRehashing(dict) THEN ShapeRehashing(dict)
              ELSE ShapeIdle(dict))
    /\ [][(isRehashing(dict) /\ isRehashing(dict'))
               => dict'.rehashIndex >= dict.rehashIndex]_vars

\* A rehash in progress has moved its cursor from one batch to the next: the
\* table is in the rehashing shape with two batches swept.
C31_CursorMoved ==
    /\ ~dict.ub
    /\ dict.rehashIndex = 2 * DICTIONARY_REHASH_BUCKET_COUNT
    /\ ShapeRehashing(dict)

====
